---- MODULE Spec2Model ----
(***************************************************************************)
(* Model of monitor.py: the reachability prober with bounded retries, the  *)
(* per-target evaluation (monitor_single_site) and the cycle driver with   *)
(* its alert cooldown ledger (main).                                       *)
(*                                                                         *)
(* Python dicts are functions whose DOMAIN is the set of keys present,     *)
(* so that dict.get(key, default) is modelled by what it does.             *)
(***************************************************************************)
EXTENDS Integers, Sequences, FiniteSets, TLC

VARIABLES
    targets,            \* config['targets']
    global_settings,    \* config['global_settings']
    is_github_actions,  \* main: single-run mode flag
    pc,                 \* position of the (single) thread of control
    check_count,        \* main: number of cycles started
    idx,                \* main: 1-based position of `target` in targets
    now,                \* wall clock, in seconds
    alert_cooldown,     \* main: site name -> time of last successful alert
    attempt,            \* check_website_with_retry: loop variable
    last_error,         \* check_website_with_retry: last recorded error
    requests_made,      \* number of session.get calls of this invocation
    sleeps,             \* number of time.sleep(1) calls of this invocation
    website_result,     \* value returned by check_website_with_retry
    site_results,       \* value returned by monitor_single_site
    gate,               \* outcome of the alert condition / cooldown gate
    last_alert_time,    \* main: alert_cooldown.get(site_name), None if absent
    alert_sent,         \* outcome of send_alert_email for this target
    keyword_response,   \* check_keyword_in_content: what its GET yielded
    keyword_result,     \* monitor_single_site: keyword_result
    ssl_result,         \* monitor_single_site: ssl_result
    verify_used,        \* requester -> certificate verification it used
    environ,            \* os.environ
    cycle_log           \* targets handled in this cycle, with the outcome

vars == <<targets, global_settings, is_github_actions, pc, check_count, idx,
          now, alert_cooldown, attempt, last_error, requests_made, sleeps,
          website_result, site_results, gate, last_alert_time, alert_sent,
          keyword_response, keyword_result, ssl_result, verify_used, environ,
          cycle_log>>

\* the locals of monitor_single_site that hold its sub-check results
callVars == <<keyword_response, keyword_result, ssl_result>>

(***************************************************************************)
(* Bounds of the model                                                     *)
(***************************************************************************)
MaxRetries == 2         \* largest configured 'retries'
MaxCycles == 2          \* cycles of the main loop that are explored

(***************************************************************************)
(* Program constants                                                       *)
(***************************************************************************)
CooldownSeconds == 600
DefaultRetries == 2
DefaultExpectedStatus == 200
DefaultMaxResponseTimeMs == 5000
DefaultSslWarningDays == 30
SecondsPerDay == 86400
RetryPauseSeconds == 1

STATUS_OK == "OK"
STATUS_WARNING == "WARNING"
STATUS_ERROR == "ERROR"

(***************************************************************************)
(* Dict helpers                                                            *)
(***************************************************************************)
EmptyDict == [k \in {} |-> 0]

\* None where a time is expected (times are never negative)
None == -1

Get(d, key, default) == IF key \in DOMAIN d THEN d[key] ELSE default

Optional(key, values) == {EmptyDict} \cup {key :> v : v \in values}

Msg(kind, x, y, cls) == [kind |-> kind, x |-> x, y |-> y, cls |-> cls]

(***************************************************************************)
(* Inputs: target configurations and the outcomes of the environment       *)
(***************************************************************************)
HttpUrl == "http://site.example/"
HttpsUrl == "https://site.example/"
Urls == {HttpUrl, HttpsUrl}

\* the host name the code treats specially
GhgwatchHost == "ghgwatch.tpark.com.tw"
GhgwatchUrl == "https://ghgwatch.tpark.com.tw/"

\* urlparse(url).hostname
Hostname(url) == IF url = GhgwatchUrl THEN GhgwatchHost ELSE "site.example"

StartsWithHttps(url) == url \in {HttpsUrl, GhgwatchUrl}

VerifySsl(cfg) == Get(cfg, "verify_ssl", TRUE)

\* variant: the verify_ssl argument is not looked at
SessionVerifyIgnoringArgument(url, verify_ssl) ==
    IF Hostname(url) = GhgwatchHost THEN FALSE ELSE TRUE

\* session.verify of the requests.Session used for a GET
SessionVerify(url, verify_ssl) ==
    IF Hostname(url) = GhgwatchHost THEN FALSE
    ELSE IF ~verify_ssl THEN FALSE
    ELSE TRUE

\* exceptions session.get can raise, with the classes each is an instance of
ExceptionTypes == {"SSLError", "ConnectTimeout", "ReadTimeout",
                   "ConnectionError", "ChunkedEncodingError"}

IsInstance(exc, class) ==
    CASE class = "Exception" -> TRUE
      [] class = "SSLError" -> exc = "SSLError"
      [] class = "Timeout" -> exc \in {"ConnectTimeout", "ReadTimeout"}
      [] class = "ConnectionError" ->
            exc \in {"SSLError", "ConnectTimeout", "ConnectionError"}
      [] OTHER -> FALSE

StatusCodes == {200, 500}
ResponseTimes == {3000, 4000, 5000, 6000}

AttemptOutcomes ==
    {[ok |-> FALSE, exc |-> e, status_code |-> 0, response_time |-> 0] :
        e \in ExceptionTypes}
    \cup
    {[ok |-> TRUE, exc |-> "none", status_code |-> s, response_time |-> t] :
        s \in StatusCodes, t \in ResponseTimes}

NoError == [cls |-> "none", attempt |-> 0, of |-> 0]

(***************************************************************************)
(* check_website_with_retry, one loop iteration per step                   *)
(***************************************************************************)
Target == targets[idx]

Retries == Get(Target, "retries", DefaultRetries)

\* variant: one iteration too many
LoopRunningOneMore(a, retries) == a <= retries + 1

\* for attempt in range(retries + 1)
LoopRunning(a, retries) == a < retries + 1

\* variant: a pause after every failed attempt, the last one included
PauseAfterEveryFailure(a, retries) == a <= retries

\* if attempt < retries: time.sleep(1)
PauseAfter(a, retries) == a < retries

SuccessResult(o, a) ==
    [success |-> TRUE, status_code |-> o.status_code,
     response_time |-> o.response_time, attempts |-> a + 1,
     message |-> Msg("none", 0, 0, "none")]

\* variant: the try statement without its final `except Exception`
ExceptClausesNoCatchAll ==
    << [class |-> "SSLError", label |-> "ssl"],
       [class |-> "Timeout", label |-> "timeout"],
       [class |-> "ConnectionError", label |-> "connection"] >>

\* the except clauses of the try statement, in order, with their labels
ExceptClauses ==
    << [class |-> "SSLError", label |-> "ssl"],
       [class |-> "Timeout", label |-> "timeout"],
       [class |-> "ConnectionError", label |-> "connection"],
       [class |-> "Exception", label |-> "other"] >>

\* the label of the first clause that matches, "uncaught" when none does
RECURSIVE Handler(_, _)
Handler(exc, i) ==
    IF i > Len(ExceptClauses) THEN "uncaught"
    ELSE IF IsInstance(exc, ExceptClauses[i].class)
         THEN ExceptClauses[i].label
         ELSE Handler(exc, i + 1)

RecordedError(label, a, retries) ==
    [cls |-> label, attempt |-> a + 1, of |-> retries + 1]

FailureResult(retries, err) ==
    [success |-> FALSE, status_code |-> 0, response_time |-> 0, attempts |-> 0,
     message |-> Msg("all_attempts_failed", retries + 1, err.attempt, err.cls)]

Attempt(o) ==
    /\ pc = "probe"
    /\ LoopRunning(attempt, Retries)
    /\ requests_made' = requests_made + 1
    /\ verify_used' =
         ("probe" :> SessionVerify(Target.url, VerifySsl(Target)))
            @@ verify_used
    /\ IF o.ok
       THEN /\ website_result' = SuccessResult(o, attempt)
            /\ pc' = "probed"
            /\ UNCHANGED <<attempt, last_error, sleeps, now>>
       ELSE IF Handler(o.exc, 1) = "uncaught"
       THEN /\ pc' = "raised"
            /\ UNCHANGED <<attempt, last_error, sleeps, now, website_result>>
       ELSE /\ last_error' = RecordedError(Handler(o.exc, 1), attempt, Retries)
            /\ IF PauseAfter(attempt, Retries)
               THEN /\ sleeps' = sleeps + 1
                    /\ now' = now + RetryPauseSeconds
               ELSE UNCHANGED <<sleeps, now>>
            /\ attempt' = attempt + 1
            /\ UNCHANGED <<website_result, pc>>
    /\ UNCHANGED <<targets, global_settings, is_github_actions, check_count,
                   idx, alert_cooldown, site_results, gate, last_alert_time,
                   alert_sent, callVars, environ, cycle_log>>

AttemptStep == \E o \in AttemptOutcomes : Attempt(o)

AllAttemptsFailed ==
    /\ pc = "probe"
    /\ ~LoopRunning(attempt, Retries)
    /\ website_result' = FailureResult(Retries, last_error)
    /\ pc' = "probed"
    /\ UNCHANGED <<targets, global_settings, is_github_actions, check_count,
                   idx, now, alert_cooldown, attempt, last_error,
                   requests_made, sleeps, site_results, gate, last_alert_time,
                   alert_sent, callVars, verify_used, environ, cycle_log>>

(***************************************************************************)
(* check_keyword_in_content: a second GET, then decoding attempts.  A      *)
(* fetched body is described by what each decoding of it yields:           *)
(* "undecodable", "has_keyword" or "no_keyword", and by whether the lossy  *)
(* UTF-8 decoding contains the keyword.                                    *)
(***************************************************************************)
Encodings == <<"utf-8", "big5", "gb2312", "gbk", "utf-8-sig">>

Body(u8, b5, gb, gbk, sig, lossy) ==
    [decode |-> [e \in {"utf-8", "big5", "gb2312", "gbk", "utf-8-sig"} |->
                    CASE e = "utf-8" -> u8
                      [] e = "big5" -> b5
                      [] e = "gb2312" -> gb
                      [] e = "gbk" -> gbk
                      [] OTHER -> sig],
     lossy |-> lossy]

Bodies ==
    { Body("has_keyword", "undecodable", "undecodable", "undecodable",
           "has_keyword", TRUE),
      Body("no_keyword", "undecodable", "undecodable", "undecodable",
           "no_keyword", FALSE),
      Body("undecodable", "has_keyword", "undecodable", "no_keyword",
           "undecodable", FALSE),
      Body("undecodable", "no_keyword", "undecodable", "undecodable",
           "undecodable", TRUE),
      Body("undecodable", "undecodable", "undecodable", "undecodable",
           "undecodable", TRUE),
      Body("undecodable", "undecodable", "undecodable", "undecodable",
           "undecodable", FALSE) }

KeywordFetches ==
    {[ok |-> FALSE, body |-> Body("undecodable", "undecodable", "undecodable",
                                  "undecodable", "undecodable", FALSE)]}
    \cup {[ok |-> TRUE, body |-> b] : b \in Bodies}

RECURSIVE FoundInSomeEncoding(_, _)
FoundInSomeEncoding(body, i) ==
    IF i > Len(Encodings) THEN FALSE
    ELSE IF body.decode[Encodings[i]] = "has_keyword" THEN TRUE
    ELSE FoundInSomeEncoding(body, i + 1)

CheckKeywordInContent(fetch) ==
    IF ~fetch.ok
    THEN [success |-> FALSE, found |-> FALSE]
    ELSE IF FoundInSomeEncoding(fetch.body, 1)
         THEN [success |-> TRUE, found |-> TRUE]
         ELSE [success |-> TRUE, found |-> fetch.body.lossy]

(***************************************************************************)
(* check_ssl_expiry                                                        *)
(***************************************************************************)
SslFailureKinds == {"timeout", "ssl_error", "no_certificate", "bad_date",
                    "other_error"}

SecondsLeft == {-86400, -1, 0, 86399, 86400, 5 * 86400, 7 * 86400 - 1,
                7 * 86400, 30 * 86400 - 1, 30 * 86400, 31 * 86400}

SslConnections ==
    {[kind |-> k, seconds_left |-> 0] : k \in SslFailureKinds}
    \cup {[kind |-> "ok", seconds_left |-> s] : s \in SecondsLeft}

\* (expiry_date - datetime.datetime.utcnow()).days
DaysLeft(seconds_left) == seconds_left \div SecondsPerDay

CheckSslExpiry(url, conn) ==
    IF ~StartsWithHttps(url)
    THEN [success |-> FALSE, days_left |-> 0, is_valid |-> FALSE,
          message |-> "not_https"]
    ELSE IF conn.kind # "ok"
    THEN [success |-> FALSE, days_left |-> 0, is_valid |-> FALSE,
          message |-> conn.kind]
    ELSE [success |-> TRUE, days_left |-> DaysLeft(conn.seconds_left),
          is_valid |-> DaysLeft(conn.seconds_left) > 0, message |-> "none"]

(***************************************************************************)
(* monitor_single_site, after the prober has returned                      *)
(***************************************************************************)
InitialResults(cfg) ==
    [name |-> cfg.name, url |-> cfg.url, errors |-> <<>>, warnings |-> <<>>,
     status |-> STATUS_OK]

AddError(r, m) ==
    [r EXCEPT !.errors = Append(@, m), !.status = STATUS_ERROR]

\* variant: the warning overwrites whatever status was there
AddWarningOverwrite(r, m) ==
    [r EXCEPT !.warnings = Append(@, m), !.status = STATUS_WARNING]

\* warning sites that also raise the status
AddWarning(r, m) ==
    [r EXCEPT !.warnings = Append(@, m),
              !.status = IF @ = STATUS_OK THEN STATUS_WARNING ELSE @]

\* variant: a check that could not be performed counts as a failure
AddWarningOnlyEscalating(r, m) ==
    [r EXCEPT !.warnings = Append(@, m), !.status = STATUS_ERROR]

\* warning sites that only append to the list
AddWarningOnly(r, m) ==
    [r EXCEPT !.warnings = Append(@, m)]

WithMetrics(r, wr) ==
    r @@ [response_time |-> wr.response_time, status_code |-> wr.status_code,
          attempts |-> wr.attempts]

ExpectedStatus(cfg) == Get(cfg, "expected_status", DefaultExpectedStatus)

\* variant: the configured expected_status is ignored
WithStatusCheckDefaultOnly(r, cfg, wr) ==
    IF wr.status_code # DefaultExpectedStatus
    THEN AddError(r, Msg("http_status", wr.status_code, DefaultExpectedStatus,
                         "none"))
    ELSE r

WithStatusCheck(r, cfg, wr) ==
    IF wr.status_code # ExpectedStatus(cfg)
    THEN AddError(r, Msg("http_status", wr.status_code, ExpectedStatus(cfg),
                         "none"))
    ELSE r

MaxResponseTime(cfg, g) ==
    Get(cfg, "max_response_time_ms",
        Get(g, "max_response_time_ms", DefaultMaxResponseTimeMs))

\* variant: a latency equal to the threshold already counts as excess
WithLatencyCheckInclusive(r, cfg, g, wr) ==
    IF wr.response_time >= MaxResponseTime(cfg, g)
    THEN AddWarning(r, Msg("slow_response", wr.response_time,
                           MaxResponseTime(cfg, g), "none"))
    ELSE r

WithLatencyCheck(r, cfg, g, wr) ==
    IF wr.response_time > MaxResponseTime(cfg, g)
    THEN AddWarning(r, Msg("slow_response", wr.response_time,
                           MaxResponseTime(cfg, g), "none"))
    ELSE r

\* if expected_keyword:
KeywordConfigured(cfg) ==
    /\ "expected_text" \in DOMAIN cfg
    /\ cfg.expected_text # ""

WithKeywordCheck(r, cfg, fetch) ==
    IF ~KeywordConfigured(cfg) THEN r
    ELSE LET res == CheckKeywordInContent(fetch) IN
         IF ~res.success
         THEN AddWarningOnly(r, Msg("content_check_failed", 0, 0, "none"))
         ELSE IF ~res.found
         THEN AddError(r, Msg("keyword_missing", 0, 0, "none"))
         ELSE r

AfterProbe(r, cfg, g, wr, fetch) ==
    IF ~wr.success
    THEN AddError(r, wr.message)
    ELSE WithKeywordCheck(
           WithLatencyCheck(
             WithStatusCheck(WithMetrics(r, wr), cfg, wr), cfg, g, wr),
           cfg, fetch)

SslCheckEnabled(cfg) ==
    StartsWithHttps(cfg.url) /\ Get(cfg, "check_ssl", FALSE)

WarningDays(g) == Get(g, "ssl_warning_days", DefaultSslWarningDays)

\* variant: a certificate with 0 days left is not yet treated as expired
WithSslOutcomeStrict(r, g, res) ==
    IF res.success
    THEN LET r1 == r @@ [ssl_days_left |-> res.days_left] IN
         IF res.days_left < 0
         THEN AddError(r1, Msg("ssl_expired", 0, 0, "none"))
         ELSE IF res.days_left < WarningDays(g)
         THEN AddWarning(r1, Msg("ssl_expiring", res.days_left, 0,
                                 "none"))
         ELSE r1
    ELSE AddWarningOnly(r, Msg("ssl_check_failed", 0, 0, res.message))

WithSslOutcome(r, g, res) ==
    IF res.success
    THEN LET r1 == r @@ [ssl_days_left |-> res.days_left] IN
         IF res.days_left <= 0
         THEN AddError(r1, Msg("ssl_expired", 0, 0, "none"))
         ELSE IF res.days_left < WarningDays(g)
         THEN AddWarning(r1, Msg("ssl_expiring", res.days_left, 0,
                                 "none"))
         ELSE r1
    ELSE AddWarningOnly(r, Msg("ssl_check_failed", 0, 0, res.message))

WithSslCheck(r, cfg, g, conn) ==
    IF SslCheckEnabled(cfg)
    THEN WithSslOutcome(r, g, CheckSslExpiry(cfg.url, conn))
    ELSE r

\* variant: a failed probe ends the evaluation at once
MonitorSingleSiteStopsOnFailure(cfg, g, wr, fetch, conn) ==
    IF ~wr.success
    THEN AfterProbe(InitialResults(cfg), cfg, g, wr, fetch)
    ELSE WithSslCheck(AfterProbe(InitialResults(cfg), cfg, g, wr, fetch),
                      cfg, g, conn)

MonitorSingleSite(cfg, g, wr, fetch, conn) ==
    WithSslCheck(AfterProbe(InitialResults(cfg), cfg, g, wr, fetch),
                 cfg, g, conn)

NoResult == EmptyDict

\* the keyword check runs only in the success branch, with a keyword set
KeywordCheckCalled(cfg, wr) == wr.success /\ KeywordConfigured(cfg)

\* context.check_hostname = True; context.verify_mode = ssl.CERT_REQUIRED
InspectorVerify == TRUE

Evaluate(fetch, conn) ==
    /\ pc = "probed"
    /\ site_results' =
         MonitorSingleSite(Target, global_settings, website_result, fetch, conn)
    /\ pc' = "alert_check"
    /\ website_result' = NoResult
    /\ attempt' = 0
    /\ last_error' = NoError
    /\ requests_made' = 0
    /\ sleeps' = 0
    /\ keyword_response' =
         IF KeywordCheckCalled(Target, website_result) THEN fetch ELSE NoResult
    /\ keyword_result' =
         IF KeywordCheckCalled(Target, website_result)
         THEN CheckKeywordInContent(fetch) ELSE NoResult
    /\ ssl_result' =
         IF SslCheckEnabled(Target)
         THEN CheckSslExpiry(Target.url, conn) ELSE NoResult
    /\ verify_used' =
         (IF SslCheckEnabled(Target)
          THEN "inspector" :> InspectorVerify ELSE EmptyDict)
         @@ (IF KeywordCheckCalled(Target, website_result)
             THEN "keyword" :> SessionVerify(Target.url, VerifySsl(Target))
             ELSE EmptyDict)
         @@ verify_used
    /\ cycle_log' = Append(cycle_log, [target |-> idx, outcome |-> "pending"])
    /\ UNCHANGED <<targets, global_settings, is_github_actions, check_count,
                   idx, now, alert_cooldown, gate, last_alert_time,
                   alert_sent, environ>>

EvaluateStep ==
    \E fetch \in KeywordFetches, conn \in SslConnections : Evaluate(fetch, conn)

(***************************************************************************)
(* main: the alert condition, the cooldown gate, the dispatch, the loops   *)
(***************************************************************************)
AlertRecipients(cfg) == Get(cfg, "alert_emails", <<>>)

\* variant: any finding, error or warning, asks for an alert
AlertWantedOnFindings(results, cfg) ==
    /\ (results.errors # <<>> \/ results.warnings # <<>>)
    /\ AlertRecipients(cfg) # <<>>

\* if site_results['errors'] and alert_recipients:
AlertWanted(results, cfg) ==
    results.errors # <<>> /\ AlertRecipients(cfg) # <<>>

\* variant: the window taken as 60 seconds
WithinCooldownShort(last, current) ==
    current - last < 60

\* variant: the boundary second still counts as inside the window
WithinCooldownInclusive(last, current) ==
    current - last <= CooldownSeconds

\* time_since_last_alert < 600
WithinCooldown(last, current) ==
    current - last < CooldownSeconds

\* variant: the ledger entry is never found
CooldownActiveNever(ledger, site_name, current) == FALSE

\* last_alert_time = alert_cooldown.get(site_name); if last_alert_time: ...
CooldownActive(ledger, site_name, current) ==
    /\ site_name \in DOMAIN ledger
    /\ WithinCooldown(ledger[site_name], current)

GateOutcome(results, cfg, ledger, current) ==
    IF ~AlertWanted(results, cfg) THEN "not_needed"
    ELSE IF CooldownActive(ledger, results.name, current) THEN "cooldown"
    ELSE "eligible"

AlertCheck ==
    /\ pc = "alert_check"
    /\ gate' = GateOutcome(site_results, Target, alert_cooldown, now)
    /\ last_alert_time' =
         IF AlertWanted(site_results, Target)
         THEN Get(alert_cooldown, site_results.name, None)
         ELSE None
    /\ pc' = IF gate' = "eligible" THEN "dispatch" ELSE "next_target"
    /\ UNCHANGED <<targets, global_settings, is_github_actions, check_count,
                   idx, now, alert_cooldown, attempt, last_error,
                   requests_made, sleeps, website_result, site_results,
                   alert_sent, callVars, verify_used, environ, cycle_log>>

\* send_alert_email: False without recipients, else whether SMTP succeeded
SendAlertEmail(recipients, smtp_ok) ==
    IF recipients = <<>> THEN FALSE ELSE smtp_ok

\* variant: the timestamp is recorded whatever send_alert_email returned
RecordAlertAlways(ledger, site_name, sent, current) ==
    (site_name :> current) @@ ledger

\* alert_cooldown[site_name] = datetime.datetime.now()
RecordAlert(ledger, site_name, sent, current) ==
    IF sent THEN (site_name :> current) @@ ledger ELSE ledger

Dispatch(smtp_ok, elapsed) ==
    /\ pc = "dispatch"
    /\ LET sent == SendAlertEmail(AlertRecipients(Target), smtp_ok) IN
         /\ alert_sent' = IF sent THEN "sent" ELSE "failed"
         /\ now' = now + elapsed
         /\ alert_cooldown' =
              RecordAlert(alert_cooldown, site_results.name, sent, now')
    /\ pc' = "next_target"
    /\ UNCHANGED <<targets, global_settings, is_github_actions, check_count,
                   idx, attempt, last_error, requests_made, sleeps,
                   website_result, site_results, gate, last_alert_time,
                   callVars, verify_used, environ, cycle_log>>

\* how long the SMTP exchange takes, in whole seconds
SendSeconds == {0, 1}

DispatchStep ==
    \E smtp_ok \in BOOLEAN, elapsed \in SendSeconds :
        Dispatch(smtp_ok, elapsed)

\* variant: the iteration stops one target early
HasNextTargetButLast(i, n) == i + 1 < n

\* for target in targets: whether the iteration has another element
HasNextTarget(i, n) == i < n

\* for target in targets: the loop takes the next target or ends
NextTarget ==
    /\ pc = "next_target"
    /\ IF HasNextTarget(idx, Len(targets))
       THEN idx' = idx + 1 /\ pc' = "probe"
       ELSE idx' = 0 /\ pc' = "cycle_end"
    /\ site_results' = NoResult
    /\ gate' = "none"
    /\ last_alert_time' = None
    /\ alert_sent' = "none"
    /\ keyword_response' = NoResult
    /\ keyword_result' = NoResult
    /\ ssl_result' = NoResult
    /\ verify_used' = EmptyDict
    /\ cycle_log' =
         [cycle_log EXCEPT ![Len(cycle_log)].outcome =
            IF alert_sent # "none" THEN alert_sent ELSE gate]
    /\ UNCHANGED <<targets, global_settings, is_github_actions, check_count,
                   now, alert_cooldown, attempt, last_error, requests_made,
                   sleeps, website_result, environ>>

\* while True: check_count += 1; for target in targets
StartCycle ==
    /\ pc = "cycle_start"
    /\ check_count < MaxCycles
    /\ check_count' = check_count + 1
    /\ IF Len(targets) > 0
       THEN idx' = 1 /\ pc' = "probe"
       ELSE idx' = 0 /\ pc' = "cycle_end"
    /\ UNCHANGED <<targets, global_settings, is_github_actions, now,
                   alert_cooldown, attempt, last_error, requests_made, sleeps,
                   website_result, site_results, gate, last_alert_time,
                   alert_sent, callVars, verify_used, environ, cycle_log>>

\* if is_github_actions: break, else time.sleep(interval)
EndCycle ==
    /\ pc = "cycle_end"
    /\ IF is_github_actions
       THEN pc' = "exit" /\ now' = now
       ELSE /\ pc' = "cycle_start"
            /\ now' = now + global_settings.monitor_interval_seconds
    /\ cycle_log' = <<>>
    /\ UNCHANGED <<targets, global_settings, is_github_actions, check_count,
                   idx, alert_cooldown, attempt, last_error, requests_made,
                   sleeps, website_result, site_results, gate,
                   last_alert_time, alert_sent, callVars, verify_used,
                   environ>>

(***************************************************************************)
(* load_config and the start of main.  Before Startup, global_settings     *)
(* holds the global_settings object of the configuration file as read.     *)
(* The port is a number in the file and a string in the environment; a     *)
(* blank port in the file is JSON null.                                    *)
(***************************************************************************)
DefaultIntervalSeconds == 300
DefaultTimeoutSeconds == 30

sensitive_keys == <<"smtp_server", "smtp_port", "sender_email",
                    "sender_password">>

\* the name each key is looked up under in the environment
env_mapping ==
    [smtp_server |-> "SMTP_SERVER", smtp_port |-> "SMTP_PORT",
     sender_email |-> "SENDER_EMAIL", sender_password |-> "  "]

\* env_value is not None and env_value != ''
EnvValueGiven(env, key) ==
    env_mapping[key] \in DOMAIN env /\ env[env_mapping[key]] # ""

\* int(env_value), defined on the strings that are decimal numbers
IntOf == ("587" :> 587) @@ ("25" :> 25)

\* key not in global_settings or global_settings.get(key) in (None, "", "your_*")
BlankInFile(g, key) ==
    \/ key \notin DOMAIN g
    \/ IF key = "smtp_port" THEN g[key] = None ELSE g[key] \in {"", "your_*"}

\* if key == 'sender_password': raise ValueError
RaisesWhenBlank(key) == key = "sender_password"

\* the loop over sensitive_keys, from the i-th key on
RECURSIVE OverrideFromEnv(_, _, _)
OverrideFromEnv(g, env, i) ==
    IF i > Len(sensitive_keys) THEN [raised |-> FALSE, settings |-> g]
    ELSE LET key == sensitive_keys[i] IN
         IF EnvValueGiven(env, key)
         THEN LET env_value == env[env_mapping[key]] IN
              IF key = "smtp_port"
              THEN IF env_value \in DOMAIN IntOf
                   THEN OverrideFromEnv((key :> IntOf[env_value]) @@ g,
                                        env, i + 1)
                   ELSE [raised |-> TRUE, settings |-> g]
              ELSE OverrideFromEnv((key :> env_value) @@ g, env, i + 1)
         ELSE IF BlankInFile(g, key) /\ RaisesWhenBlank(key)
         THEN [raised |-> TRUE, settings |-> g]
         ELSE OverrideFromEnv(g, env, i + 1)

SetDefault(d, key, value) == IF key \in DOMAIN d THEN d ELSE d @@ (key :> value)

WithDefaults(g) ==
    SetDefault(
      SetDefault(
        SetDefault(
          SetDefault(g, "monitor_interval_seconds", DefaultIntervalSeconds),
          "timeout_seconds", DefaultTimeoutSeconds),
        "ssl_warning_days", DefaultSslWarningDays),
      "max_response_time_ms", DefaultMaxResponseTimeMs)

load_config(file_settings, env) ==
    LET res == OverrideFromEnv(file_settings, env, 1) IN
    IF res.raised THEN res
    ELSE [raised |-> FALSE, settings |-> WithDefaults(res.settings)]

\* print(f"... {global_settings['smtp_server']}:{global_settings['smtp_port']}")
BannerKeys == {"smtp_server", "smtp_port"}

\* main from load_config() up to the loop: a ValueError ends the program
\* with the configuration message, a KeyError of the banner with a traceback
Startup ==
    /\ pc = "load"
    /\ LET config == load_config(global_settings, environ) IN
       /\ global_settings' = config.settings
       /\ pc' = IF config.raised THEN "config_error"
                ELSE IF BannerKeys \subseteq DOMAIN config.settings
                THEN "cycle_start"
                ELSE "crashed"
    /\ UNCHANGED <<targets, is_github_actions, check_count, idx, now,
                   alert_cooldown, attempt, last_error, requests_made, sleeps,
                   website_result, site_results, gate, last_alert_time,
                   alert_sent, callVars, verify_used, environ, cycle_log>>

(***************************************************************************)
(* Configurations                                                          *)
(***************************************************************************)
Keyword == "status ok"
Recipients == <<"ops@site.example">>

Settings(interval, warning_days) ==
    [monitor_interval_seconds |-> interval, timeout_seconds |-> 30,
     ssl_warning_days |-> warning_days,
     max_response_time_ms |-> DefaultMaxResponseTimeMs]

\* every combination of the keys monitor_single_site reads
EvalTargets ==
    { [name |-> "A", url |-> u] @@ r @@ s @@ m @@ k @@ c :
        u \in Urls,
        r \in Optional("retries", 0..MaxRetries),
        s \in Optional("expected_status", {500}),
        m \in Optional("max_response_time_ms", {3000}),
        k \in Optional("expected_text", {"", Keyword}),
        c \in Optional("check_ssl", {TRUE}) }

DriverFirstTarget ==
    [name |-> "A", url |-> HttpUrl, retries |-> 1, alert_emails |-> Recipients]

DriverSecondTargets ==
    { [name |-> n, url |-> HttpUrl, retries |-> 0, expected_text |-> Keyword]
        @@ a :
        n \in {"A", "B"}, a \in Optional("alert_emails", {Recipients}) }

\* every combination of host and verify_ssl setting
VerifyTargets ==
    { [name |-> "A", url |-> u, retries |-> 0] @@ v @@ k @@ c :
        u \in Urls \cup {GhgwatchUrl},
        v \in Optional("verify_ssl", BOOLEAN),
        k \in Optional("expected_text", {Keyword}),
        c \in Optional("check_ssl", {TRUE}) }

Intervals == {300, 599}

\* global_settings objects of a configuration file: each credential absent,
\* blank or given
FileSettings ==
    { s @@ p @@ e @@ w :
        s \in Optional("smtp_server", {"", "smtp.site.example"}),
        p \in Optional("smtp_port", {None, 25}),
        e \in Optional("sender_email", {"", "monitor@site.example"}),
        w \in Optional("sender_password", {"", "secret"}) }

Environments ==
    { s @@ p @@ e @@ w :
        s \in Optional("SMTP_SERVER", {"smtp.env.example"}),
        p \in Optional("SMTP_PORT", {"587", "smtp"}),
        e \in Optional("SENDER_EMAIL", {""}),
        w \in Optional("SENDER_PASSWORD", {"secret"}) }

IdleLocals ==
    /\ attempt = 0
    /\ last_error = NoError
    /\ requests_made = 0
    /\ sleeps = 0
    /\ website_result = NoResult
    /\ site_results = NoResult
    /\ gate = "none"
    /\ last_alert_time = None
    /\ alert_sent = "none"
    /\ keyword_response = NoResult
    /\ keyword_result = NoResult
    /\ ssl_result = NoResult
    /\ verify_used = EmptyDict
    /\ cycle_log = <<>>

\* main, after load_config, before the first cycle
Init ==
    /\ targets \in {<<DriverFirstTarget, t>> : t \in DriverSecondTargets}
    /\ global_settings \in
         {Settings(i, DefaultSslWarningDays) : i \in Intervals}
    /\ is_github_actions \in BOOLEAN
    /\ pc = "cycle_start"
    /\ check_count = 0
    /\ idx = 0
    /\ now = 0
    /\ alert_cooldown = EmptyDict
    /\ environ = EmptyDict
    /\ IdleLocals

Next ==
    \/ StartCycle
    \/ AttemptStep
    \/ AllAttemptsFailed
    \/ EvaluateStep
    \/ AlertCheck
    \/ DispatchStep
    \/ NextTarget
    \/ EndCycle

Spec == Init /\ [][Next]_vars

\* variant: any value of GITHUB_ACTIONS selects the single-run mode
IsGithubActionsWhenSet(env) == "GITHUB_ACTIONS" \in DOMAIN env

\* is_github_actions = os.getenv('GITHUB_ACTIONS') == 'true'
IsGithubActions(env) ==
    "GITHUB_ACTIONS" \in DOMAIN env /\ env["GITHUB_ACTIONS"] = "true"

\* GITHUB_ACTIONS unset, set by the runner, or set to something else
RunEnvironments == Optional("GITHUB_ACTIONS", {"true", "1"})

\* main with the mode taken from the environment, after load_config
ModeInit ==
    /\ targets \in {<<DriverFirstTarget, t>> : t \in DriverSecondTargets}
    /\ global_settings = Settings(DefaultIntervalSeconds, DefaultSslWarningDays)
    /\ environ \in RunEnvironments
    /\ is_github_actions = IsGithubActions(environ)
    /\ pc = "cycle_start"
    /\ check_count = 0
    /\ idx = 0
    /\ now = 0
    /\ alert_cooldown = EmptyDict
    /\ IdleLocals

\* every blocking call has a timeout and time.sleep returns, so a step that
\* can be taken is taken
ModeSpec == ModeInit /\ [][Next]_vars /\ WF_vars(Next)

\* main before load_config, one target, one cycle
StartupInit ==
    /\ targets = <<DriverFirstTarget>>
    /\ global_settings \in FileSettings
    /\ environ \in Environments
    /\ is_github_actions = TRUE
    /\ pc = "load"
    /\ check_count = 0
    /\ idx = 0
    /\ now = 0
    /\ alert_cooldown = EmptyDict
    /\ IdleLocals

StartupNext ==
    \/ Startup
    \/ Next

StartupSpec == StartupInit /\ [][StartupNext]_vars

\* one call of monitor_single_site on an arbitrary target configuration
EvalInit ==
    /\ targets \in {<<t>> : t \in EvalTargets}
    /\ global_settings \in {Settings(300, d) : d \in {7, DefaultSslWarningDays}}
    /\ is_github_actions = TRUE
    /\ pc = "probe"
    /\ check_count = 1
    /\ idx = 1
    /\ now = 0
    /\ alert_cooldown = EmptyDict
    /\ environ = EmptyDict
    /\ IdleLocals

\* one call of monitor_single_site for each host and verify_ssl setting
VerifyInit ==
    /\ targets \in {<<t>> : t \in VerifyTargets}
    /\ global_settings = Settings(300, DefaultSslWarningDays)
    /\ is_github_actions = TRUE
    /\ pc = "probe"
    /\ check_count = 1
    /\ idx = 1
    /\ now = 0
    /\ alert_cooldown = EmptyDict
    /\ environ = EmptyDict
    /\ IdleLocals

EvalNext ==
    \/ AttemptStep
    \/ AllAttemptsFailed
    \/ EvaluateStep

EvalSpec == EvalInit /\ [][EvalNext]_vars

VerifySpec == VerifyInit /\ [][EvalNext]_vars

\* every blocking call has its own timeout, so each step completes
FairEvalSpec == EvalSpec /\ WF_vars(EvalNext)

(***************************************************************************)
(* Properties                                                              *)
(***************************************************************************)
VerdictReturned == DOMAIN site_results # {}

Kinds(msgs) == {msgs[i].kind : i \in 1..Len(msgs)}

CountKind(msgs, kind) == Cardinality({i \in 1..Len(msgs) : msgs[i].kind = kind})

MaxSeverity(errors, warnings) ==
    IF errors # <<>> THEN STATUS_ERROR
    ELSE IF warnings # <<>> THEN STATUS_WARNING
    ELSE STATUS_OK

\* C1: the status of a returned verdict is the maximum severity of its
\* findings: ERROR if an error was appended, otherwise WARNING if any
\* warning was appended (latency, content-check failure, certificate
\* expiring, certificate-inspection failure), otherwise OK.
SeverityIsMaxOfFindings ==
    VerdictReturned =>
        site_results.status =
            MaxSeverity(site_results.errors, site_results.warnings)

\* C2: a returned verdict is ERROR exactly when its errors list is
\* non-empty; a warning appended after an error does not lower the status.
ErrorIffErrorsRecorded ==
    VerdictReturned =>
        (site_results.status = STATUS_ERROR <=> site_results.errors # <<>>)

ErrorKeptAfterLaterWarning ==
    /\ VerdictReturned
    /\ site_results.status = STATUS_ERROR
    /\ "http_status" \in Kinds(site_results.errors)
    /\ "slow_response" \in Kinds(site_results.warnings)
    /\ "ssl_expiring" \in Kinds(site_results.warnings)

HasRecipients(cfg) ==
    "alert_emails" \in DOMAIN cfg /\ cfg.alert_emails # <<>>

\* C3: when an alert is wanted, the gate lets it through if the ledger has
\* no entry for the target name or the entry is more than 600 seconds old,
\* and suppresses it, without any dispatch, if the entry is less than 600
\* seconds old.
CooldownGate ==
    [][ (pc = "alert_check" /\ site_results.errors # <<>>
            /\ HasRecipients(Target)) =>
        LET name == site_results.name IN
          /\ name \notin DOMAIN alert_cooldown => pc' = "dispatch"
          /\ (name \in DOMAIN alert_cooldown
                /\ now - alert_cooldown[name] < 600) =>
                    (pc' = "next_target" /\ alert_cooldown' = alert_cooldown
                        /\ alert_sent' = "none")
          /\ (name \in DOMAIN alert_cooldown
                /\ now - alert_cooldown[name] > 600) => pc' = "dispatch"
      ]_vars

SuppressedAt599 ==
    /\ pc = "next_target"
    /\ gate = "cooldown"
    /\ alert_sent = "none"
    /\ now - alert_cooldown[site_results.name] = 599

EligibleAt601 ==
    /\ pc = "dispatch"
    /\ last_alert_time # None
    /\ now - last_alert_time = 601

\* C4: a successful dispatch for a name that already has a ledger entry
\* records a timestamp at least 600 seconds after the entry it replaces.
MinSpacingBetweenAlerts ==
    (alert_sent = "sent" /\ last_alert_time # None) =>
        alert_cooldown[site_results.name] - last_alert_time >= 600

SecondAlertRecorded ==
    /\ alert_sent = "sent"
    /\ last_alert_time # None
    /\ alert_cooldown[site_results.name] > last_alert_time

\* C5: the ledger starts empty; a successful dispatch sets the entry of the
\* dispatched target name to the current time and leaves every other entry
\* as it was; every other step leaves the whole ledger unchanged.
LedgerFrame ==
    /\ alert_cooldown = EmptyDict
    /\ [][ IF pc = "dispatch" /\ alert_sent' = "sent"
           THEN /\ DOMAIN alert_cooldown' =
                     DOMAIN alert_cooldown \cup {site_results.name}
                /\ alert_cooldown'[site_results.name] = now'
                /\ \A n \in DOMAIN alert_cooldown \ {site_results.name} :
                     alert_cooldown'[n] = alert_cooldown[n]
           ELSE alert_cooldown' = alert_cooldown
         ]_vars

FailedDispatchLeavesLedger ==
    /\ pc = "next_target"
    /\ alert_sent = "failed"
    /\ DOMAIN alert_cooldown # {}
    /\ site_results.name \notin DOMAIN alert_cooldown

\* C6: a dispatch is attempted, and the ledger updated, only for a verdict
\* of status ERROR on a target with at least one recipient.
DispatchOnlyOnErrorWithRecipients ==
    /\ []((pc = "dispatch" \/ alert_sent # "none") =>
            (site_results.status = STATUS_ERROR /\ HasRecipients(Target)))
    /\ [][ alert_cooldown' # alert_cooldown =>
            (site_results.status = STATUS_ERROR /\ HasRecipients(Target))
         ]_vars

DispatchAttemptedOnError ==
    /\ alert_sent # "none"
    /\ site_results.status = STATUS_ERROR
    /\ site_results.warnings # <<>>

WarningOnlyNotDispatched ==
    /\ pc = "next_target"
    /\ site_results.status = STATUS_WARNING
    /\ HasRecipients(Target)
    /\ gate = "not_needed"

ConfiguredRetries ==
    IF "retries" \in DOMAIN Target THEN Target.retries ELSE 2

\* C7: with retries = N the prober issues at most N + 1 requests; it returns
\* at the first request that yields a response, reporting the 1-based index
\* of that request as attempts, all earlier requests having failed; and
\* every invocation returns.
ProbeAttemptsBounded ==
    /\ [](pc \in {"probe", "probed"} => requests_made <= ConfiguredRetries + 1)
    /\ []((pc = "probed" /\ website_result.success) =>
            /\ website_result.attempts = requests_made
            /\ last_error.attempt = requests_made - 1)
    /\ <>(pc # "probe")

FailTwiceThenSucceed ==
    /\ pc = "probed"
    /\ ConfiguredRetries = 2
    /\ website_result.success
    /\ website_result.attempts = 3
    /\ requests_made = 3
    /\ sleeps = 2

\* C8: a failed attempt of any exception type is caught and recorded as the
\* last error, and the loop goes on to the next iteration; no exception
\* leaves the function; when all attempts fail the returned message carries
\* the total number of attempts and the error of the last attempt.
FailuresHandledUniformly ==
    /\ [](pc # "raised")
    /\ [][ (pc = "probe" /\ requests_made' # requests_made
                /\ pc' # "probed") =>
            /\ pc' = "probe"
            /\ attempt' = attempt + 1
            /\ last_error'.attempt = requests_made'
            /\ last_error'.of = ConfiguredRetries + 1
            /\ last_error'.cls \in {"ssl", "timeout", "connection", "other"}
         ]_vars
    /\ []((pc = "probed" /\ ~website_result.success) =>
            /\ requests_made = ConfiguredRetries + 1
            /\ website_result.message.kind = "all_attempts_failed"
            /\ website_result.message.x = ConfiguredRetries + 1
            /\ last_error.attempt = ConfiguredRetries + 1
            /\ website_result.message.y = last_error.attempt
            /\ website_result.message.cls = last_error.cls)

AllAttemptsFailedLastOther ==
    /\ pc = "probed"
    /\ ~website_result.success
    /\ website_result.message.x = 3
    /\ website_result.message.cls = "other"

\* C9: after a successful certificate inspection, days_left <= 0 gives
\* exactly an 'expired' error and status ERROR; 0 < days_left < threshold
\* gives exactly an 'expiring soon' warning, a status of at least WARNING
\* and ERROR only if an error was recorded; days_left >= threshold adds
\* neither.
CertificateOutcomeByDaysLeft ==
    (VerdictReturned /\ "ssl_days_left" \in DOMAIN site_results) =>
        LET d == site_results.ssl_days_left
            w == global_settings.ssl_warning_days
            expired == CountKind(site_results.errors, "ssl_expired")
            expiring == CountKind(site_results.warnings, "ssl_expiring")
        IN  /\ d <= 0 =>
                (expired = 1 /\ expiring = 0
                    /\ site_results.status = STATUS_ERROR)
            /\ (0 < d /\ d < w) =>
                (expired = 0 /\ expiring = 1
                    /\ site_results.status \in {STATUS_WARNING, STATUS_ERROR}
                    /\ (site_results.status = STATUS_ERROR
                            <=> site_results.errors # <<>>))
            /\ d >= w => (expired = 0 /\ expiring = 0)

FiveDaysLeftWarns ==
    /\ VerdictReturned
    /\ "ssl_days_left" \in DOMAIN site_results
    /\ site_results.ssl_days_left = 5
    /\ global_settings.ssl_warning_days = 30
    /\ site_results.status = STATUS_WARNING
    /\ site_results.errors = <<>>
    /\ Kinds(site_results.warnings) = {"ssl_expiring"}

ExpiredYesterdayErrors ==
    /\ VerdictReturned
    /\ "ssl_days_left" \in DOMAIN site_results
    /\ site_results.ssl_days_left = -1
    /\ site_results.status = STATUS_ERROR
    /\ Kinds(site_results.errors) = {"ssl_expired"}

ConfiguredExpectedStatus ==
    IF "expected_status" \in DOMAIN Target THEN Target.expected_status ELSE 200

ConfiguredThreshold ==
    IF "max_response_time_ms" \in DOMAIN Target
    THEN Target.max_response_time_ms
    ELSE global_settings.max_response_time_ms

\* C10: a response with an unexpected status code ends the prober at once
\* (no further request), and the verdict carries exactly one status error,
\* placed first; with no keyword, no certificate check and a latency within
\* the threshold it is ERROR with that single error and no warning.  A
\* response with the expected status adds no status error.
StatusMismatchNotRetried ==
    /\ (pc = "probed" /\ website_result.success
            /\ website_result.status_code # ConfiguredExpectedStatus) =>
          website_result.attempts = requests_made
    /\ (VerdictReturned /\ "status_code" \in DOMAIN site_results) =>
          LET code == site_results.status_code
              n == CountKind(site_results.errors, "http_status")
          IN  /\ code = ConfiguredExpectedStatus => n = 0
              /\ code # ConfiguredExpectedStatus =>
                   /\ n = 1
                   /\ site_results.errors[1] =
                        Msg("http_status", code, ConfiguredExpectedStatus,
                            "none")
                   /\ site_results.status = STATUS_ERROR
                   /\ ("expected_text" \notin DOMAIN Target
                        /\ ~("check_ssl" \in DOMAIN Target
                                /\ Target.check_ssl)
                        /\ site_results.response_time <= ConfiguredThreshold)
                       => (Len(site_results.errors) = 1
                            /\ site_results.warnings = <<>>)

Status500Expected200 ==
    /\ VerdictReturned
    /\ "expected_status" \notin DOMAIN Target
    /\ "status_code" \in DOMAIN site_results
    /\ site_results.status_code = 500
    /\ site_results.attempts = 1
    /\ site_results.status = STATUS_ERROR
    /\ site_results.errors = <<Msg("http_status", 500, 200, "none")>>
    /\ site_results.warnings = <<>>

\* C11: after a successful probe the latency is compared with the target's
\* max_response_time_ms if set, else the global one; a latency strictly
\* above it appends exactly one warning, as the first warning, and gives a
\* status of at least WARNING that is ERROR only if an error was recorded;
\* a latency at or below it, or a failed probe, appends no such warning.
LatencyWarningAboveThreshold ==
    VerdictReturned =>
        LET n == CountKind(site_results.warnings, "slow_response") IN
        IF "response_time" \in DOMAIN site_results
        THEN /\ site_results.response_time > ConfiguredThreshold =>
                  /\ n = 1
                  /\ site_results.warnings[1] =
                       Msg("slow_response", site_results.response_time,
                           ConfiguredThreshold, "none")
                  /\ site_results.status \in {STATUS_WARNING, STATUS_ERROR}
                  /\ (site_results.status = STATUS_ERROR
                        <=> site_results.errors # <<>>)
             /\ site_results.response_time <= ConfiguredThreshold => n = 0
        ELSE n = 0

Slow6000Against5000 ==
    /\ VerdictReturned
    /\ "max_response_time_ms" \notin DOMAIN Target
    /\ "response_time" \in DOMAIN site_results
    /\ site_results.response_time = 6000
    /\ site_results.status_code = ConfiguredExpectedStatus
    /\ DOMAIN keyword_result # {}
    /\ keyword_result.success /\ keyword_result.found
    /\ site_results.status = STATUS_WARNING
    /\ Len(site_results.warnings) = 1
    /\ site_results.errors = <<>>

SlowOnlyAgainstOverride ==
    /\ VerdictReturned
    /\ "max_response_time_ms" \in DOMAIN Target
    /\ "response_time" \in DOMAIN site_results
    /\ site_results.response_time = 4000
    /\ "slow_response" \in Kinds(site_results.warnings)

CertificateCheckConfigured ==
    /\ Target.url \in {HttpsUrl, GhgwatchUrl}
    /\ "check_ssl" \in DOMAIN Target
    /\ Target.check_ssl

\* C12: when the prober has failed, the verdict starts with the probe
\* failure as its first error and is ERROR, it has no status-code, latency
\* or attempts metric, no status, latency or content finding, and no
\* keyword request was made; the certificate inspection runs exactly when
\* the URL is HTTPS and the target enables it, whatever the probe returned.
ProbeFailureSkipsFetchChecks ==
    [][ pc = "probed" =>
          /\ ~website_result.success =>
               /\ site_results'.errors[1] = website_result.message
               /\ site_results'.status = STATUS_ERROR
               /\ DOMAIN site_results' \cap
                    {"status_code", "response_time", "attempts"} = {}
               /\ Kinds(site_results'.errors) \subseteq
                    {"all_attempts_failed", "ssl_expired"}
               /\ Kinds(site_results'.warnings) \subseteq
                    {"ssl_expiring", "ssl_check_failed"}
               /\ DOMAIN keyword_response' = {}
               /\ "keyword" \notin DOMAIN verify_used'
          /\ CertificateCheckConfigured <=> DOMAIN ssl_result' # {}
          /\ CertificateCheckConfigured <=> "inspector" \in DOMAIN verify_used'
          /\ CertificateCheckConfigured <=>
               ("ssl_days_left" \in DOMAIN site_results'
                \/ "ssl_check_failed" \in Kinds(site_results'.warnings))
      ]_vars

FailedProbeStillInspected ==
    /\ VerdictReturned
    /\ Len(site_results.errors) > 0
    /\ site_results.errors[1].kind = "all_attempts_failed"
    /\ "expected_text" \in DOMAIN Target
    /\ Target.expected_text # ""
    /\ DOMAIN keyword_response = {}
    /\ DOMAIN ssl_result # {}
    /\ "ssl_days_left" \in DOMAIN site_results

AdvisoryKinds == {"content_check_failed", "ssl_check_failed"}

\* C13: a content check that could not be performed, or a certificate
\* inspection that failed for whatever reason, adds exactly one warning and
\* no error for its step; a verdict whose only findings are such advisory
\* failures is not ERROR and is not a reason to alert.
AdvisoryFailuresStayWarnings ==
    [][ pc = "probed" =>
          /\ (DOMAIN keyword_result' # {} /\ ~keyword_result'.success) =>
               /\ CountKind(site_results'.warnings, "content_check_failed") = 1
               /\ "keyword_missing" \notin Kinds(site_results'.errors)
          /\ (DOMAIN ssl_result' # {} /\ ~ssl_result'.success) =>
               /\ CountKind(site_results'.warnings, "ssl_check_failed") = 1
               /\ "ssl_expired" \notin Kinds(site_results'.errors)
               /\ "ssl_expiring" \notin Kinds(site_results'.warnings)
          /\ ( /\ site_results'.errors = <<>>
               /\ site_results'.warnings # <<>>
               /\ Kinds(site_results'.warnings) \subseteq AdvisoryKinds ) =>
               /\ site_results'.status # STATUS_ERROR
               /\ ~AlertWanted(site_results', Target)
      ]_vars

BothAdvisoryFailuresOnly ==
    /\ VerdictReturned
    /\ DOMAIN keyword_result # {} /\ ~keyword_result.success
    /\ DOMAIN ssl_result # {} /\ ~ssl_result.success
    /\ ssl_result.message = "timeout"
    /\ site_results.errors = <<>>
    /\ Kinds(site_results.warnings) = AdvisoryKinds
    /\ site_results.status # STATUS_ERROR

\* C14: the content validation works on the body the prober fetched: an
\* evaluation makes no request besides the prober's, so no second response
\* exists that the keyword verdict could refer to.
ContentCheckUsesProbedBody ==
    VerdictReturned =>
        /\ DOMAIN keyword_response = {}
        /\ "keyword" \notin DOMAIN verify_used

TransportRequests == {"probe", "keyword"}

\* C15: for every URL, the GET of the prober and the GET of the keyword
\* check verify the server certificate exactly when verify_ssl is true; the
\* certificate inspector always verifies.
TransportVerifyFollowsArgument ==
    /\ \A k \in DOMAIN verify_used \cap TransportRequests :
          verify_used[k] = Get(Target, "verify_ssl", TRUE)
    /\ "inspector" \in DOMAIN verify_used => verify_used["inspector"]

\* C15 (amended): for the host ghgwatch.tpark.com.tw both GETs skip the
\* verification whatever verify_ssl says; for every other host they verify
\* exactly when verify_ssl is true; the certificate inspector always
\* verifies.
TransportVerifyExceptGhgwatch ==
    /\ \A k \in DOMAIN verify_used \cap TransportRequests :
          verify_used[k] = IF Target.url = GhgwatchUrl THEN FALSE
                           ELSE Get(Target, "verify_ssl", TRUE)
    /\ "inspector" \in DOMAIN verify_used => verify_used["inspector"]

GhgwatchUnverifiedDespiteArgument ==
    /\ Target.url = GhgwatchUrl
    /\ "verify_ssl" \in DOMAIN Target
    /\ Target.verify_ssl
    /\ DOMAIN verify_used = {"probe", "keyword", "inspector"}
    /\ ~verify_used["probe"]
    /\ ~verify_used["keyword"]
    /\ verify_used["inspector"]

VerifySkippedOnRequest ==
    /\ Target.url = HttpsUrl
    /\ "verify_ssl" \in DOMAIN Target
    /\ ~Target.verify_ssl
    /\ DOMAIN verify_used = {"probe", "keyword", "inspector"}
    /\ ~verify_used["probe"]
    /\ verify_used["inspector"]

\* C16: a pause of one second follows each failed attempt except the last
\* permitted one: when all N + 1 attempts have failed there were exactly N
\* pauses, when attempt k succeeded there were exactly k - 1, and the step
\* that ends the probing (a success, or the end of the loop) adds no pause.
PausesOnlyBetweenAttempts ==
    /\ []((pc = "probed" /\ website_result.success) =>
            /\ sleeps = website_result.attempts - 1
            /\ now = sleeps * 1)
    /\ []((pc = "probed" /\ ~website_result.success) =>
            /\ requests_made = ConfiguredRetries + 1
            /\ sleeps = ConfiguredRetries
            /\ now = ConfiguredRetries * 1)
    /\ [][ (pc = "probe" /\ pc' = "probed") =>
              (sleeps' = sleeps /\ now' = now) ]_vars
    /\ [][ (pc = "probe" /\ sleeps' # sleeps) =>
              /\ sleeps' = sleeps + 1
              /\ now' = now + 1
              /\ requests_made' = requests_made + 1
              /\ requests_made' <= ConfiguredRetries ]_vars

AllThreeFailedTwoPauses ==
    /\ pc = "probed"
    /\ ~website_result.success
    /\ ConfiguredRetries = 2
    /\ requests_made = 3
    /\ sleeps = 2
    /\ now = 2

\* C17: for body bytes that were fetched, the content validator returns
\* succeeded = true and a definite found: found = true as soon as a clean
\* decoding in one of the listed encodings contains the keyword, and the
\* lossy UTF-8 decoding decides the result only when none of the listed
\* encodings decodes the bytes cleanly; succeeded = false only when the
\* fetch itself failed.
LossyFallbackOnlyWhenNothingDecodes ==
    DOMAIN keyword_result # {} =>
        LET body == keyword_response.body
            clean == {e \in DOMAIN body.decode :
                         body.decode[e] # "undecodable"}
        IN /\ keyword_result.success = keyword_response.ok
           /\ keyword_response.ok =>
                /\ keyword_result.found \in BOOLEAN
                /\ keyword_result.found =
                     IF clean # {}
                     THEN \E e \in clean : body.decode[e] = "has_keyword"
                     ELSE body.lossy

RequiredCredentials == {"smtp_server", "smtp_port", "sender_email",
                        "sender_password"}

CredentialMissing(k) ==
    \/ k \notin DOMAIN global_settings
    \/ IF k = "smtp_port" THEN global_settings[k] = None
       ELSE global_settings[k] = ""

\* C18: when a required SMTP credential (smtp_server, smtp_port,
\* sender_email, sender_password) is missing or empty after the
\* configuration was loaded, the program stops before the monitoring loop:
\* no cycle starts and no target is evaluated.
IncompleteSettingsStopStartup ==
    (\E k \in RequiredCredentials : CredentialMissing(k)) =>
        /\ check_count = 0
        /\ requests_made = 0
        /\ ~VerdictReturned

\* C19: within one cycle every configured target is evaluated exactly once,
\* in configuration order; each evaluation is followed by at most one
\* dispatch; whatever the alert step did (nothing, a cooldown suppression, a
\* sent or a failed dispatch) the loop goes on to the next target; and the
\* prober is entered only for a target not yet evaluated in this cycle.
EachTargetOncePerCycle ==
    /\ [](/\ Len(cycle_log) <= Len(targets)
          /\ \A i \in 1..Len(cycle_log) : cycle_log[i].target = i)
    /\ [](pc = "cycle_end" => Len(cycle_log) = Len(targets))
    /\ [][ pc = "next_target" =>
             IF idx < Len(targets)
             THEN pc' = "probe" /\ idx' = idx + 1
             ELSE pc' = "cycle_end" ]_vars
    /\ [][ (pc' = "dispatch" => pc = "alert_check")
           /\ (pc = "dispatch" => pc' = "next_target") ]_vars
    /\ [][ (pc' = "probe" /\ pc # "probe") =>
              (idx' = Len(cycle_log') + 1 /\ requests_made' = 0) ]_vars

SuppressedThenNextTargetAlerted ==
    /\ pc = "next_target"
    /\ idx = 2
    /\ Len(cycle_log) = 2
    /\ cycle_log[1].outcome = "cooldown"
    /\ alert_sent = "sent"

FailedDispatchThenNextTargetEvaluated ==
    /\ pc = "cycle_end"
    /\ Len(cycle_log) = 2
    /\ cycle_log[1].outcome = "failed"
    /\ cycle_log[2].outcome = "sent"

\* C20: the suppression is strict: an ERROR verdict with recipients that
\* arrives exactly 600 seconds after the recorded alert of its target goes
\* to dispatch, and a verdict is suppressed only while fewer than 600
\* seconds have passed.
SuppressionStrictlyBelow600 ==
    [][ (/\ pc = "alert_check"
         /\ site_results.errors # <<>>
         /\ HasRecipients(Target)
         /\ site_results.name \in DOMAIN alert_cooldown) =>
          LET elapsed == now - alert_cooldown[site_results.name] IN
          /\ elapsed = 600 => (pc' = "dispatch" /\ gate' = "eligible")
          /\ gate' = "cooldown" => (elapsed < 600 /\ pc' = "next_target")
          /\ pc' = "dispatch" <=> elapsed >= 600
      ]_vars

DispatchAtExactly600 ==
    /\ pc = "dispatch"
    /\ gate = "eligible"
    /\ last_alert_time # None
    /\ now - last_alert_time = 600

SingleRunMode ==
    "GITHUB_ACTIONS" \in DOMAIN environ /\ environ["GITHUB_ACTIONS"] = "true"

\* C21: with GITHUB_ACTIONS = 'true' the driver ends after exactly one
\* complete cycle over all targets, whatever the verdicts and dispatches
\* were; otherwise the loop never exits, every cycle is followed by a sleep
\* of monitor_interval_seconds and then by the next cycle, and the alert
\* ledger is carried from one cycle to the next unchanged.
SingleRunEndsContinuousRepeats ==
    /\ [](SingleRunMode => <>(pc = "exit"))
    /\ [](pc = "exit" => (SingleRunMode /\ check_count = 1))
    /\ [][ pc' = "exit" =>
             (pc = "cycle_end" /\ Len(cycle_log) = Len(targets)) ]_vars
    /\ [][ (pc = "cycle_end" /\ SingleRunMode) => pc' = "exit" ]_vars
    /\ [][ (pc = "cycle_end" /\ ~SingleRunMode) =>
             /\ pc' = "cycle_start"
             /\ now' = now + global_settings.monitor_interval_seconds
             /\ alert_cooldown' = alert_cooldown ]_vars
    /\ [][ pc = "cycle_start" =>
             /\ check_count' = check_count + 1
             /\ alert_cooldown' = alert_cooldown
             /\ now' = now ]_vars
    /\ [][ \A n \in DOMAIN alert_cooldown :
             /\ n \in DOMAIN alert_cooldown'
             /\ alert_cooldown'[n] >= alert_cooldown[n] ]_vars
    /\ [](~SingleRunMode => <>(check_count = MaxCycles))

LedgerCarriedIntoSecondCycle ==
    /\ ~SingleRunMode
    /\ "GITHUB_ACTIONS" \in DOMAIN environ
    /\ check_count = 2
    /\ now >= DefaultIntervalSeconds
    /\ gate = "cooldown"
    /\ last_alert_time # None
    /\ last_alert_time < DefaultIntervalSeconds

SingleRunExitedAfterAlert ==
    /\ SingleRunMode
    /\ pc = "exit"
    /\ check_count = 1
    /\ DOMAIN alert_cooldown # {}

====
